---- MODULE Spec2Model ----
(***************************************************************************)
(* Model of the URL shortener (main.go).                                   *)
(*                                                                         *)
(* Spec      the allocation and lookup core: saveURLMapping and            *)
(*           getOriginalURL, run by concurrent request goroutines over the *)
(*           shared in-memory map (guarded by its RWMutex), the MySQL      *)
(*           table and the Redis cache.                                    *)
(* SpecLive  the durable read path with a cache that may stop answering,   *)
(*           under fair scheduling of the goroutines.                      *)
(* SpecHttp  the service from the start of main: the startup against       *)
(*           every environment, then handleNewURL and handleRedirect on    *)
(*           raw requests (method, path, Host, body).                      *)
(* SpecGen   generateCode on its own, byte by byte.                        *)
(*                                                                         *)
(* Strings are sequences of one-character strings, so that the key         *)
(* formats ("domain:code", "short:domain:code"), the normalisations and    *)
(* the path pattern are computed as the code computes them.                *)
(***************************************************************************)
EXTENDS Integers, Sequences, FiniteSets, TLC

\* ---------------------------------------------------------------- bounds
\* Number of concurrent request goroutines.
NumProcs == 2
\* Number of requests the server accepts in one run.
MaxReqs == 3
\* Number of requests in a run of the liveness specification.
MaxReqsLive == 2
\* Number of requests in a run that starts with main.
MaxReqsHttp == 2
\* Largest length for which generateCode is run over every byte value.
MaxGenLen == 2
\* Length of a generated code (9 in main.go; shrunk so that collisions and
\* exhausted retries happen).
CodeLen == 1

\* ------------------------------------------------------------- constants
\* saveURLMapping's retry bound: for attempt := 0; attempt < 5; attempt++
MaxAttempts == 5

\* The length saveURLMapping asks generateCode for: generateCode(9)
CodeLength == 9
\* The repetition count of shortCodePattern: ^/[A-Za-z0-9]{9}$
PatternLen == 9
\* The number of values of a byte: byte(time.Now().UnixNano() % 256)
ByteMod == 256

StatusOK == 200
StatusBadRequest == 400
StatusMethodNotAllowed == 405
StatusMovedPermanently == 301
StatusNotFound == 404
StatusInternalServerError == 500

Procs == 1..NumProcs

\* The characters generateCode draws from (a two-letter slice of charSet).
CodeChars == {"x", "y"}

RECURSIVE SeqsOfLen(_, _)
SeqsOfLen(S, n) ==
    IF n = 0 THEN {<<>>}
    ELSE {<<ch>> \o s : ch \in S, s \in SeqsOfLen(S, n - 1)}

\* Every value generateCode(CodeLen) can return.
Codes == SeqsOfLen(CodeChars, CodeLen)

\* Normalised domains a request may carry; one of them holds a ':'.
Domains == {<<"a">>, <<"a", ":", "8">>}

\* Original URLs (non-empty strings).
Urls == {"u1", "u2"}

\* Go's zero values for the (string, error) results.
NoCode == <<>>
NoUrl == ""

\* The map key with the domain left out.
MemKey_NoDomain(d, c) == <<":">> \o c

\* ------------------------------------------------------------------ keys
\* key := domain + ":" + code
MemKey(d, c) == d \o <<":">> \o c

\* cacheKey := fmt.Sprintf("short:%s:%s", domain, code)
CacheKey(d, c) == <<"short:">> \o d \o <<":">> \o c

VARIABLES
    useMemory,    \* the global flag: in-memory store instead of the database
    redisClient,  \* TRUE iff the global Redis client is non-nil
    memData,      \* memStore.data: "domain:code" -> original URL
    memLock,      \* memStore's RWMutex: [w |-> writer or 0, r |-> readers]
    dbRows,       \* rows of shortened_urls: <<domain, code, original_url>>
    cache,        \* Redis: "short:domain:code" -> original URL
    cacheHung,    \* TRUE once the Redis server stopped answering
    pc,           \* position of each request goroutine
    op,           \* per goroutine: the handler serving it ("new", "get")
    domain,       \* per goroutine: the domain argument
    url,          \* per goroutine: the originalURL argument
    code,         \* per goroutine: the candidate / requested code
    attempt,      \* per goroutine: saveURLMapping's loop counter
    res,          \* per goroutine: what the core function returned
    resp,         \* per goroutine: the HTTP response written
    quota,        \* requests the server still accepts in this run
    collisions,   \* history: collisions seen by the running allocation
    cacheErr,     \* history: the running operation saw a cache failure
    returned,     \* history: successful allocations, <<d, c, u>> -> count
    committed,    \* history: inserts that took effect, a set of <<d, c, u>>
    expect,       \* history: the URL an allocation had returned for the
                  \* looked-up pair when the lookup started (or "")
    expectHost,   \* history: the URL an allocation had returned under the
                  \* request's Host and code before the lookup started
    dbErr,        \* history: the running operation saw a database failure
    queried,      \* history: the running lookup queried the database
    req,          \* per goroutine: the HTTP request being served
    db,           \* TRUE iff the global database handle is non-nil
    mainPc,       \* position of main
    env,          \* the environment main runs in (configuration, backends)
    gLen,         \* generateCode: the length argument
    gBuf,         \* generateCode: the characters written to b so far
    gByte,        \* generateCode: rb[0], the byte drawn last
    gPc           \* generateCode: position ("idle", "draw", "fallback",
                  \* "check", "done")

vars == <<useMemory, redisClient, memData, memLock, dbRows, cache, cacheHung,
          pc, op, domain, url, code, attempt, res, resp, quota, collisions,
          cacheErr, returned, committed, expect, expectHost, dbErr, queried,
          req, db,
          mainPc, env, gLen, gBuf, gByte, gPc>>

config == <<useMemory, redisClient>>
boot == <<db, mainPc, env>>
gen == <<gLen, gBuf, gByte, gPc>>
stores == <<memData, memLock, dbRows, cache>>
ghost == <<committed, expect, dbErr>>
hist == <<collisions, cacheErr, returned, ghost>>

NoRes == [err |-> "none", code |-> NoCode, url |-> NoUrl]
NoResp == [status |-> 0, url |-> NoUrl, code |-> NoCode, short |-> <<>>]

\* newURLRequest after json Decode: ok is FALSE when Decode returns an error;
\* a field missing from the body is the empty string.
NoBody == [ok |-> FALSE, domain |-> <<>>, url |-> NoUrl]

\* An HTTP request: r.Method, r.URL.Path, r.Host and the decoded body.
NoReq == [method |-> "", path |-> <<>>, host |-> <<>>, body |-> NoBody]

Triples == Domains \X Codes \X Urls

\* The stores, the request goroutines and generateCode before any request,
\* with q requests to come.
InitRequests(q) ==
    /\ memData = <<>>
    /\ memLock = [w |-> 0, r |-> {}]
    /\ dbRows = {}
    /\ cache = <<>>
    /\ cacheHung = FALSE
    /\ pc = [p \in Procs |-> "idle"]
    /\ op = [p \in Procs |-> "none"]
    /\ domain = [p \in Procs |-> <<>>]
    /\ url = [p \in Procs |-> NoUrl]
    /\ code = [p \in Procs |-> NoCode]
    /\ attempt = [p \in Procs |-> 0]
    /\ res = [p \in Procs |-> NoRes]
    /\ resp = [p \in Procs |-> NoResp]
    /\ quota = q
    /\ collisions = [p \in Procs |-> 0]
    /\ cacheErr = [p \in Procs |-> FALSE]
    /\ returned = [t \in Triples |-> 0]
    /\ committed = {}
    /\ expect = [p \in Procs |-> NoUrl]
    /\ dbErr = [p \in Procs |-> FALSE]
    /\ queried = [p \in Procs |-> FALSE]
    /\ req = [p \in Procs |-> NoReq]
    /\ expectHost = [p \in Procs |-> NoUrl]
    /\ gLen = 0
    /\ gBuf = <<>>
    /\ gByte = 0
    /\ gPc = "idle"

\* The environments main may start in: MYSQL_DSN set or not, sql.Open and
\* db.Ping succeeding or not, REDIS_ADDR set or not, the Redis ping
\* succeeding or not (a step that is not reached is recorded as FALSE).
Envs ==
    {e \in [dsn : BOOLEAN, open : BOOLEAN, ping : BOOLEAN,
            addr : BOOLEAN, rping : BOOLEAN] :
        /\ e.open => e.dsn
        /\ e.ping => e.open
        /\ e.rping => e.addr}

\* The state when the server starts listening, with q requests to come.
InitState(q) ==
    /\ useMemory \in BOOLEAN
    /\ redisClient \in BOOLEAN
    /\ db = ~useMemory
    /\ mainPc = "serve"
    /\ env = [dsn |-> ~useMemory, open |-> ~useMemory, ping |-> ~useMemory,
              addr |-> redisClient, rping |-> redisClient]
    /\ InitRequests(q)

Init == InitState(MaxReqs)

\* ---------------------------------------------------------------- helpers
\* Go's map assignment m[k] = v (inserts or overwrites).
MapSet(m, k, v) == [x \in DOMAIN m \cup {k} |-> IF x = k THEN v ELSE m[x]]

\* Redis eviction of one key.
MapDel(m, k) == [x \in DOMAIN m \ {k} |-> m[x]]

\* A mutex that excludes nobody (the check-then-insert left unguarded).
CanLock_NoExclusion == TRUE

\* sync.RWMutex: Lock() proceeds when nobody holds the mutex.
CanLock == memLock.w = 0 /\ memLock.r = {}

\* sync.RWMutex: RLock() proceeds when no writer holds the mutex.
CanRLock == memLock.w = 0

\* The UNIQUE KEY unique_domain_code (domain, code) of shortened_urls. The
\* model's codes differ in more than letter case, so the table's collation
\* does not change which pairs are equal.
DbHas(d, c) == \E r \in dbRows : r[1] = d /\ r[2] = c

\* The SELECT with the domain left out of its WHERE clause.
DbUrl_AnyDomain(d, c) == (CHOOSE r \in dbRows : r[2] = c)[3]

\* SELECT original_url FROM shortened_urls WHERE domain = ? AND code = ?
DbUrl(d, c) == (CHOOSE r \in dbRows : r[1] = d /\ r[2] = c)[3]

Ok(c, u) == [err |-> "none", code |-> c, url |-> u]
Err(e) == [err |-> e, code |-> NoCode, url |-> NoUrl]

\* ----------------------------------------------------- handleNewURL (entry)
\* POST /newurl with a valid body: calls saveURLMapping(req.Domain, req.URL).
StartNewURL(p, d, u) ==
    /\ pc[p] = "idle"
    /\ quota > 0
    /\ quota' = quota - 1
    /\ op' = [op EXCEPT ![p] = "new"]
    /\ domain' = [domain EXCEPT ![p] = d]
    /\ url' = [url EXCEPT ![p] = u]
    /\ pc' = [pc EXCEPT ![p] = "sLoop"]
    /\ UNCHANGED <<config, boot, gen, req, expectHost, queried, stores, cacheHung, code, attempt, res, resp, hist>>

\* -------------------------------------------------------- saveURLMapping
\* Loop head with attempt < 5: code := generateCode(9).
SaveGenerate(p) ==
    /\ pc[p] = "sLoop"
    /\ attempt[p] < MaxAttempts
    /\ \E c \in Codes : code' = [code EXCEPT ![p] = c]
    /\ pc' = [pc EXCEPT ![p] = IF useMemory THEN "mLock" ELSE "dExec"]
    /\ UNCHANGED <<config, boot, gen, req, expectHost, queried, stores, cacheHung, op, domain, url, attempt, res,
                   resp, quota, hist>>

\* The loop exit taken one attempt early (attempt < 4).
SaveExhausted_OffByOne(p) ==
    /\ pc[p] = "sLoop"
    /\ ~(attempt[p] < MaxAttempts - 1)
    /\ res' = [res EXCEPT ![p] = Err("Exhausted")]
    /\ pc' = [pc EXCEPT ![p] = "ret"]
    /\ UNCHANGED <<config, boot, gen, req, expectHost, queried, stores, cacheHung, op, domain, url, code, attempt,
                   resp, quota, hist>>

\* Loop exit: every attempt collided.
SaveExhausted(p) ==
    /\ pc[p] = "sLoop"
    /\ ~(attempt[p] < MaxAttempts)
    /\ res' = [res EXCEPT ![p] = Err("Exhausted")]
    /\ pc' = [pc EXCEPT ![p] = "ret"]
    /\ UNCHANGED <<config, boot, gen, req, expectHost, queried, stores, cacheHung, op, domain, url, code, attempt,
                   resp, quota, hist>>

\* memStore.Lock()
MemLock(p) ==
    /\ pc[p] = "mLock"
    /\ CanLock
    /\ memLock' = [memLock EXCEPT !.w = p]
    /\ pc' = [pc EXCEPT ![p] = "mCheck"]
    /\ UNCHANGED <<config, boot, gen, req, expectHost, queried, memData, dbRows, cache, cacheHung, op, domain, url,
                   code, attempt, res, resp, quota, hist>>

\* The insert made without looking at exists.
MemCheck_NoCheck(p) ==
    /\ pc[p] = "mCheck"
    /\ pc' = [pc EXCEPT ![p] = "mInsert"]
    /\ UNCHANGED <<config, boot, gen, req, expectHost, queried, stores, cacheHung, op, domain, url, code, attempt,
                   res, resp, quota, hist>>

\* if _, exists := memStore.data[key]; !exists
MemCheck(p) ==
    /\ pc[p] = "mCheck"
    /\ pc' = [pc EXCEPT ![p] =
                IF MemKey(domain[p], code[p]) \notin DOMAIN memData
                THEN "mInsert" ELSE "mUnlockDup"]
    /\ UNCHANGED <<config, boot, gen, req, expectHost, queried, stores, cacheHung, op, domain, url, code, attempt,
                   res, resp, quota, hist>>

\* memStore.data[key] = originalURL
MemInsert(p) ==
    /\ pc[p] = "mInsert"
    /\ memData' = MapSet(memData, MemKey(domain[p], code[p]), url[p])
    /\ committed' = committed \cup {<<domain[p], code[p], url[p]>>}
    /\ pc' = [pc EXCEPT ![p] = "mUnlockOk"]
    /\ UNCHANGED <<config, boot, gen, req, expectHost, queried, memLock, dbRows, cache, cacheHung, op, domain, url,
                   code, attempt, res, resp, quota, collisions, cacheErr, returned, expect,
                   dbErr>>

\* memStore.Unlock(); return code, nil
MemUnlockOk(p) ==
    /\ pc[p] = "mUnlockOk"
    /\ memLock' = [memLock EXCEPT !.w = 0]
    /\ res' = [res EXCEPT ![p] = Ok(code[p], NoUrl)]
    /\ returned' = [returned EXCEPT ![<<domain[p], code[p], url[p]>>] = @ + 1]
    /\ pc' = [pc EXCEPT ![p] = "ret"]
    /\ UNCHANGED <<config, boot, gen, req, expectHost, queried, memData, dbRows, cache, cacheHung, op, domain, url,
                   code, attempt, resp, quota, collisions, cacheErr, ghost>>

\* memStore.Unlock(); next iteration
MemUnlockDup(p) ==
    /\ pc[p] = "mUnlockDup"
    /\ memLock' = [memLock EXCEPT !.w = 0]
    /\ attempt' = [attempt EXCEPT ![p] = @ + 1]
    /\ collisions' = [collisions EXCEPT ![p] = @ + 1]
    /\ pc' = [pc EXCEPT ![p] = "sLoop"]
    /\ UNCHANGED <<config, boot, gen, req, expectHost, queried, memData, dbRows, cache, cacheHung, op, domain, url,
                   code, res, resp, quota, cacheErr, returned, ghost>>

\* db.Exec(INSERT ...) returns err == nil: the row is committed.
DbInsertOk(p) ==
    /\ pc[p] = "dExec"
    /\ ~DbHas(domain[p], code[p])
    /\ dbRows' = dbRows \cup {<<domain[p], code[p], url[p]>>}
    /\ committed' = committed \cup {<<domain[p], code[p], url[p]>>}
    /\ IF redisClient
       THEN /\ pc' = [pc EXCEPT ![p] = "sSet"]
            /\ UNCHANGED <<res, returned>>
       ELSE /\ pc' = [pc EXCEPT ![p] = "ret"]
            /\ res' = [res EXCEPT ![p] = Ok(code[p], NoUrl)]
            /\ returned' = [returned EXCEPT
                              ![<<domain[p], code[p], url[p]>>] = @ + 1]
    /\ UNCHANGED <<config, boot, gen, req, expectHost, queried, memData, memLock, cache, cacheHung, op, domain, url,
                   code, attempt, resp, quota, collisions, cacheErr, expect,
                   dbErr>>

\* The duplicate-key branch with the cache written before the error is looked
\* at.
DbInsertDup_WritesCache(p) ==
    /\ pc[p] = "dExec"
    /\ DbHas(domain[p], code[p])
    /\ cache' = IF redisClient
                THEN MapSet(cache, CacheKey(domain[p], code[p]), url[p])
                ELSE cache
    /\ attempt' = [attempt EXCEPT ![p] = @ + 1]
    /\ collisions' = [collisions EXCEPT ![p] = @ + 1]
    /\ pc' = [pc EXCEPT ![p] = "sLoop"]
    /\ UNCHANGED <<config, boot, gen, req, expectHost, queried, memData, memLock, dbRows, cacheHung, op, domain,
                   url, code, res, resp, quota, cacheErr, returned, ghost>>

\* db.Exec returns MySQL error 1062 (duplicate key): continue.
DbInsertDup(p) ==
    /\ pc[p] = "dExec"
    /\ DbHas(domain[p], code[p])
    /\ attempt' = [attempt EXCEPT ![p] = @ + 1]
    /\ collisions' = [collisions EXCEPT ![p] = @ + 1]
    /\ pc' = [pc EXCEPT ![p] = "sLoop"]
    /\ UNCHANGED <<config, boot, gen, req, expectHost, queried, stores, cacheHung, op, domain, url, code, res, resp,
                   quota, cacheErr, returned, ghost>>

\* Every insert error handled like the duplicate-key error: continue.
DbInsertErr_Retries(p) ==
    /\ pc[p] = "dExec"
    /\ dbErr' = [dbErr EXCEPT ![p] = TRUE]
    /\ attempt' = [attempt EXCEPT ![p] = @ + 1]
    /\ pc' = [pc EXCEPT ![p] = "sLoop"]
    /\ UNCHANGED <<config, boot, gen, req, expectHost, queried, stores, cacheHung, op, domain, url, code, res, resp,
                   quota, collisions, cacheErr, returned, committed, expect>>

\* db.Exec returns any other error: return "", err
DbInsertErr(p) ==
    /\ pc[p] = "dExec"
    /\ res' = [res EXCEPT ![p] = Err("StoreErr")]
    /\ dbErr' = [dbErr EXCEPT ![p] = TRUE]
    /\ pc' = [pc EXCEPT ![p] = "ret"]
    /\ UNCHANGED <<config, boot, gen, req, expectHost, queried, stores, cacheHung, op, domain, url, code, attempt,
                   resp, quota, collisions, cacheErr, returned, committed, expect>>

\* redisClient.Set(...) after the insert succeeds; return code, nil
SaveCacheSetOk(p) ==
    /\ pc[p] = "sSet"
    /\ ~cacheHung
    /\ cache' = MapSet(cache, CacheKey(domain[p], code[p]), url[p])
    /\ res' = [res EXCEPT ![p] = Ok(code[p], NoUrl)]
    /\ returned' = [returned EXCEPT ![<<domain[p], code[p], url[p]>>] = @ + 1]
    /\ pc' = [pc EXCEPT ![p] = "ret"]
    /\ UNCHANGED <<config, boot, gen, req, expectHost, queried, memData, memLock, dbRows, cacheHung, op, domain,
                   url, code, attempt, resp, quota, collisions, cacheErr, ghost>>

\* The failed cache write with its error returned to the caller.
SaveCacheSetErr_Propagates(p) ==
    /\ pc[p] = "sSet"
    /\ cacheErr' = [cacheErr EXCEPT ![p] = TRUE]
    /\ res' = [res EXCEPT ![p] = Err("CacheErr")]
    /\ pc' = [pc EXCEPT ![p] = "ret"]
    /\ UNCHANGED <<config, boot, gen, req, expectHost, queried, stores, cacheHung, op, domain, url, code, attempt,
                   resp, quota, collisions, returned, ghost>>

\* redisClient.Set(...) fails: the warning is logged; return code, nil
SaveCacheSetErr(p) ==
    /\ pc[p] = "sSet"
    /\ cacheErr' = [cacheErr EXCEPT ![p] = TRUE]
    /\ res' = [res EXCEPT ![p] = Ok(code[p], NoUrl)]
    /\ returned' = [returned EXCEPT ![<<domain[p], code[p], url[p]>>] = @ + 1]
    /\ pc' = [pc EXCEPT ![p] = "ret"]
    /\ UNCHANGED <<config, boot, gen, req, expectHost, queried, stores, cacheHung, op, domain, url, code, attempt,
                   resp, quota, collisions, ghost>>

\* ---------------------------------------------------- handleRedirect (entry)
\* GET /code with a well-formed path: calls getOriginalURL(domain, code).
StartRedirect(p, d, c) ==
    /\ pc[p] = "idle"
    /\ quota > 0
    /\ quota' = quota - 1
    /\ op' = [op EXCEPT ![p] = "get"]
    /\ domain' = [domain EXCEPT ![p] = d]
    /\ code' = [code EXCEPT ![p] = c]
    /\ expect' = [expect EXCEPT ![p] =
                    IF \E u \in Urls : returned[<<d, c, u>>] > 0
                    THEN CHOOSE u \in Urls : returned[<<d, c, u>>] > 0
                    ELSE NoUrl]
    /\ pc' = [pc EXCEPT ![p] = IF useMemory THEN "gRLock"
                               ELSE IF redisClient THEN "gGet" ELSE "gQuery"]
    /\ UNCHANGED <<config, boot, gen, req, expectHost, queried, stores, cacheHung, url, attempt, res, resp, collisions, cacheErr,
                   returned, committed, dbErr>>

\* -------------------------------------------------------- getOriginalURL
\* memStore.RLock()
MemRLock(p) ==
    /\ pc[p] = "gRLock"
    /\ CanRLock
    /\ memLock' = [memLock EXCEPT !.r = @ \cup {p}]
    /\ pc' = [pc EXCEPT ![p] = "gRead"]
    /\ UNCHANGED <<config, boot, gen, req, expectHost, queried, memData, dbRows, cache, cacheHung, op, domain, url,
                   code, attempt, res, resp, quota, hist>>

\* orig, exists := memStore.data[key]
MemRead(p) ==
    /\ pc[p] = "gRead"
    /\ LET key == MemKey(domain[p], code[p]) IN
       res' = [res EXCEPT ![p] =
                 IF key \in DOMAIN memData THEN Ok(NoCode, memData[key])
                 ELSE Err("ErrNoRows")]
    /\ pc' = [pc EXCEPT ![p] = "gRUnlock"]
    /\ UNCHANGED <<config, boot, gen, req, expectHost, queried, stores, cacheHung, op, domain, url, code, attempt,
                   resp, quota, hist>>

\* memStore.RUnlock(); return orig, nil / "", sql.ErrNoRows
MemRUnlock(p) ==
    /\ pc[p] = "gRUnlock"
    /\ memLock' = [memLock EXCEPT !.r = @ \ {p}]
    /\ pc' = [pc EXCEPT ![p] = "ret"]
    /\ UNCHANGED <<config, boot, gen, req, expectHost, queried, memData, dbRows, cache, cacheHung, op, domain, url,
                   code, attempt, res, resp, quota, hist>>

\* redisClient.Get(...) returns err == nil: cache hit, return val, nil
CacheGetHit(p) ==
    /\ pc[p] = "gGet"
    /\ ~cacheHung
    /\ CacheKey(domain[p], code[p]) \in DOMAIN cache
    /\ res' = [res EXCEPT ![p] = Ok(NoCode, cache[CacheKey(domain[p], code[p])])]
    /\ pc' = [pc EXCEPT ![p] = "ret"]
    /\ UNCHANGED <<config, boot, gen, req, expectHost, queried, stores, cacheHung, op, domain, url, code, attempt,
                   resp, quota, hist>>

\* redisClient.Get(...) returns redis.Nil: cache miss, proceed to the database
CacheGetMiss(p) ==
    /\ pc[p] = "gGet"
    /\ ~cacheHung
    /\ CacheKey(domain[p], code[p]) \notin DOMAIN cache
    /\ pc' = [pc EXCEPT ![p] = "gQuery"]
    /\ UNCHANGED <<config, boot, gen, req, expectHost, queried, stores, cacheHung, op, domain, url, code, attempt,
                   res, resp, quota, hist>>

\* redisClient.Get(...) never returns (the variant without the client's
\* socket timeout).
CacheGetErr_Blocks(p) ==
    /\ pc[p] = "gGet"
    /\ ~cacheHung
    /\ cacheErr' = [cacheErr EXCEPT ![p] = TRUE]
    /\ pc' = [pc EXCEPT ![p] = "gQuery"]
    /\ UNCHANGED <<config, boot, gen, req, expectHost, queried, stores, cacheHung, op, domain, url, code, attempt,
                   res, resp, quota, collisions, returned, ghost>>

\* redisClient.Get(...) returns another error (connection failure, or the
\* client's socket timeout when the server does not answer): logged, proceed
\* to the database.
CacheGetErr(p) ==
    /\ pc[p] = "gGet"
    /\ cacheErr' = [cacheErr EXCEPT ![p] = TRUE]
    /\ pc' = [pc EXCEPT ![p] = "gQuery"]
    /\ UNCHANGED <<config, boot, gen, req, expectHost, queried, stores, cacheHung, op, domain, url, code, attempt,
                   res, resp, quota, collisions, returned, ghost>>

\* db.QueryRow(...).Scan(&originalURL) finds the row.
DbQueryRow(p) ==
    /\ pc[p] = "gQuery"
    /\ DbHas(domain[p], code[p])
    /\ res' = [res EXCEPT ![p] = Ok(NoCode, DbUrl(domain[p], code[p]))]
    /\ pc' = [pc EXCEPT ![p] = IF redisClient THEN "gSet" ELSE "ret"]
    /\ queried' = [queried EXCEPT ![p] = TRUE]
    /\ UNCHANGED <<config, boot, gen, req, expectHost, stores, cacheHung, op, domain, url, code, attempt,
                   resp, quota, hist>>

\* Scan returns sql.ErrNoRows: return "", err
DbQueryNoRows(p) ==
    /\ pc[p] = "gQuery"
    /\ ~DbHas(domain[p], code[p])
    /\ res' = [res EXCEPT ![p] = Err("ErrNoRows")]
    /\ pc' = [pc EXCEPT ![p] = "ret"]
    /\ queried' = [queried EXCEPT ![p] = TRUE]
    /\ UNCHANGED <<config, boot, gen, req, expectHost, stores, cacheHung, op, domain, url, code, attempt,
                   resp, quota, hist>>

\* Scan returns a connection error: return "", err
DbQueryErr(p) ==
    /\ pc[p] = "gQuery"
    /\ res' = [res EXCEPT ![p] = Err("StoreErr")]
    /\ dbErr' = [dbErr EXCEPT ![p] = TRUE]
    /\ pc' = [pc EXCEPT ![p] = "ret"]
    /\ queried' = [queried EXCEPT ![p] = TRUE]
    /\ UNCHANGED <<config, boot, gen, req, expectHost, stores, cacheHung, op, domain, url, code, attempt,
                   resp, quota, collisions, cacheErr, returned, committed, expect>>

\* The read-through fill left out: return originalURL, nil without the Set.
FillCacheSetOk_NoWrite(p) ==
    /\ pc[p] = "gSet"
    /\ ~cacheHung
    /\ pc' = [pc EXCEPT ![p] = "ret"]
    /\ UNCHANGED <<config, boot, gen, req, expectHost, queried, stores, cacheHung, op, domain,
                   url, code, attempt, res, resp, quota, hist>>

\* The fill written under a key built from the code alone.
FillCacheSetOk_WrongKey(p) ==
    /\ pc[p] = "gSet"
    /\ ~cacheHung
    /\ cache' = MapSet(cache, <<"short:">> \o code[p], res[p].url)
    /\ pc' = [pc EXCEPT ![p] = "ret"]
    /\ UNCHANGED <<config, boot, gen, req, expectHost, queried, memData, memLock, dbRows, cacheHung, op, domain,
                   url, code, attempt, res, resp, quota, hist>>

\* redisClient.Set(...) after the database read; return originalURL, nil
FillCacheSetOk(p) ==
    /\ pc[p] = "gSet"
    /\ ~cacheHung
    /\ cache' = MapSet(cache, CacheKey(domain[p], code[p]), res[p].url)
    /\ pc' = [pc EXCEPT ![p] = "ret"]
    /\ UNCHANGED <<config, boot, gen, req, expectHost, queried, memData, memLock, dbRows, cacheHung, op, domain,
                   url, code, attempt, res, resp, quota, hist>>

\* redisClient.Set(...) fails: the warning is logged; return originalURL, nil
FillCacheSetErr(p) ==
    /\ pc[p] = "gSet"
    /\ cacheErr' = [cacheErr EXCEPT ![p] = TRUE]
    /\ pc' = [pc EXCEPT ![p] = "ret"]
    /\ UNCHANGED <<config, boot, gen, req, expectHost, queried, stores, cacheHung, op, domain, url, code, attempt,
                   res, resp, quota, collisions, returned, ghost>>

\* ------------------------------------------------------------- responses
\* strings.Contains(s, sub)
Contains(s, sub) ==
    \E i \in 0..(Len(s) - Len(sub)) :
        \A j \in 1..Len(sub) : s[i + j] = sub[j]

Localhost == <<"l", "o", "c", "a", "l", "h", "o", "s", "t">>
Loopback == <<"1", "2", "7", ".", "0", ".", "0", ".", "1">>

\* scheme: "http://" for localhost or 127.0.0.1, else "https://"
Scheme(d) ==
    IF Contains(d, Localhost) \/ Contains(d, Loopback)
    THEN <<"http://">> ELSE <<"https://">>

\* shortURL := fmt.Sprintf("%s%s/%s", scheme, req.Domain, code)
ShortURL(d, c) == Scheme(d) \o d \o <<"/">> \o c

\* http.Error(w, ..., status) / http.NotFound
ErrorResponse(st) ==
    [status |-> st, url |-> NoUrl, code |-> NoCode, short |-> <<>>]

\* The JSON result sent with 201 Created.
NewURLResponse_Created(r, d, u) ==
    IF r.err # "none"
    THEN ErrorResponse(StatusInternalServerError)
    ELSE [status |-> 201, url |-> u, code |-> r.code,
          short |-> ShortURL(d, r.code)]

\* handleNewURL after saveURLMapping returned: 500 on error, else the JSON
\* result (200) with url and shortenUrl.
NewURLResponse(r, d, u) ==
    IF r.err # "none"
    THEN ErrorResponse(StatusInternalServerError)
    ELSE [status |-> StatusOK, url |-> u, code |-> r.code,
          short |-> ShortURL(d, r.code)]

\* Every lookup error answered 500, sql.ErrNoRows included.
RedirectResponse_All500(r) ==
    IF r.err # "none"
    THEN ErrorResponse(StatusInternalServerError)
    ELSE [status |-> StatusMovedPermanently, url |-> r.url, code |-> NoCode,
          short |-> <<>>]

\* handleRedirect after getOriginalURL returned: 404 on sql.ErrNoRows, 500 on
\* any other error, else the 301 redirect to origURL.
RedirectResponse(r) ==
    IF r.err # "none"
    THEN IF r.err = "ErrNoRows"
         THEN ErrorResponse(StatusNotFound)
         ELSE ErrorResponse(StatusInternalServerError)
    ELSE [status |-> StatusMovedPermanently, url |-> r.url, code |-> NoCode,
          short |-> <<>>]

\* The handler writes its response.
Respond(p) ==
    /\ pc[p] = "ret"
    /\ resp' = [resp EXCEPT ![p] =
                  IF op[p] = "new"
                  THEN NewURLResponse(res[p], domain[p], url[p])
                  ELSE RedirectResponse(res[p])]
    /\ pc' = [pc EXCEPT ![p] = "sent"]
    /\ UNCHANGED <<config, boot, gen, req, expectHost, queried, stores, cacheHung, op, domain, url, code, attempt,
                   res, quota, hist>>

\* The handler returns: the request's goroutine and its locals are gone.
Finish(p) ==
    /\ pc[p] = "sent"
    /\ pc' = [pc EXCEPT ![p] = "idle"]
    /\ op' = [op EXCEPT ![p] = "none"]
    /\ domain' = [domain EXCEPT ![p] = <<>>]
    /\ url' = [url EXCEPT ![p] = NoUrl]
    /\ code' = [code EXCEPT ![p] = NoCode]
    /\ attempt' = [attempt EXCEPT ![p] = 0]
    /\ res' = [res EXCEPT ![p] = NoRes]
    /\ resp' = [resp EXCEPT ![p] = NoResp]
    /\ collisions' = [collisions EXCEPT ![p] = 0]
    /\ cacheErr' = [cacheErr EXCEPT ![p] = FALSE]
    /\ expect' = [expect EXCEPT ![p] = NoUrl]
    /\ expectHost' = [expectHost EXCEPT ![p] = NoUrl]
    /\ dbErr' = [dbErr EXCEPT ![p] = FALSE]
    /\ req' = [req EXCEPT ![p] = NoReq]
    /\ queried' = [queried EXCEPT ![p] = FALSE]
    /\ UNCHANGED <<config, boot, gen, stores, cacheHung, quota, returned, committed>>

\* ------------------------------------------------------------ environment
\* Redis evicts a key (entries are stored without expiration, "keep until
\* evicted").
CacheEvict(k) ==
    /\ k \in DOMAIN cache
    /\ cache' = MapDel(cache, k)
    /\ UNCHANGED <<config, boot, gen, req, expectHost, queried, memData, memLock, dbRows, cacheHung, pc, op, domain,
                   url, code, attempt, res, resp, quota, hist>>

\* The Redis server stops answering.
CacheHangs ==
    /\ redisClient
    /\ ~cacheHung
    /\ cacheHung' = TRUE
    /\ UNCHANGED <<config, boot, gen, req, expectHost, queried, stores, pc, op, domain, url, code, attempt, res,
                   resp, quota, hist>>

\* ------------------------------------------------------------------ system
SaveStep(p) ==
    \/ SaveGenerate(p)
    \/ SaveExhausted(p)
    \/ DbInsertOk(p)
    \/ DbInsertDup(p)
    \/ DbInsertErr(p)
    \/ SaveCacheSetOk(p)
    \/ SaveCacheSetErr(p)

MemStep(p) ==
    \/ MemLock(p)
    \/ MemCheck(p)
    \/ MemInsert(p)
    \/ MemUnlockOk(p)
    \/ MemUnlockDup(p)
    \/ MemRLock(p)
    \/ MemRead(p)
    \/ MemRUnlock(p)

GetStep(p) ==
    \/ CacheGetHit(p)
    \/ CacheGetMiss(p)
    \/ CacheGetErr(p)
    \/ DbQueryRow(p)
    \/ DbQueryNoRows(p)
    \/ DbQueryErr(p)
    \/ FillCacheSetOk(p)
    \/ FillCacheSetErr(p)

EndStep(p) ==
    \/ Respond(p)
    \/ Finish(p)

Next ==
    \/ \E p \in Procs, d \in Domains, u \in Urls : StartNewURL(p, d, u)
    \/ \E p \in Procs, d \in Domains, c \in Codes : StartRedirect(p, d, c)
    \/ \E p \in Procs : SaveStep(p)
    \/ \E p \in Procs : MemStep(p)
    \/ \E p \in Procs : GetStep(p)
    \/ \E p \in Procs : EndStep(p)
    \/ \E k \in DOMAIN cache : CacheEvict(k)

Spec == Init /\ [][Next]_vars

\* Durable mode with a cache whose server may stop answering, for the
\* progress of the read path.
InitLive ==
    /\ InitState(MaxReqsLive)
    /\ ~useMemory
    /\ redisClient

NextLive ==
    \/ \E p \in Procs, d \in Domains, u \in Urls : StartNewURL(p, d, u)
    \/ \E p \in Procs, d \in Domains, c \in Codes : StartRedirect(p, d, c)
    \/ \E p \in Procs : SaveStep(p)
    \/ \E p \in Procs : GetStep(p)
    \/ \E p \in Procs : EndStep(p)
    \/ \E k \in DOMAIN cache : CacheEvict(k)
    \/ CacheHangs

\* The Go scheduler runs every runnable goroutine: each request's next step
\* is eventually taken.
SpecLive ==
    /\ InitLive
    /\ [][NextLive]_vars
    /\ \A p \in Procs : WF_vars(SaveStep(p) \/ GetStep(p) \/ EndStep(p))

\* ------------------------------------------------------- shortCodePattern
\* The character classes of the pattern: A-Z, a-z and 0-9.
UpperChars ==
    {"A", "B", "C", "D", "E", "F", "G", "H", "I", "J", "K", "L", "M",
     "N", "O", "P", "Q", "R", "S", "T", "U", "V", "W", "X", "Y", "Z"}
LowerChars ==
    {"a", "b", "c", "d", "e", "f", "g", "h", "i", "j", "k", "l", "m",
     "n", "o", "p", "q", "r", "s", "t", "u", "v", "w", "x", "y", "z"}
DigitChars == {"0", "1", "2", "3", "4", "5", "6", "7", "8", "9"}

\* The pattern without its end anchor: ^/[A-Za-z0-9]{n}
shortCodePattern_NoEnd(path, n) ==
    /\ Len(path) >= n + 1
    /\ path[1] = "/"
    /\ \A i \in 2..(n + 1) :
         path[i] \in UpperChars \cup LowerChars \cup DigitChars

\* shortCodePattern.MatchString(path) for ^/[A-Za-z0-9]{n}$
shortCodePattern(path, n) ==
    /\ Len(path) = n + 1
    /\ path[1] = "/"
    /\ \A i \in 2..(n + 1) :
         path[i] \in UpperChars \cup LowerChars \cup DigitChars

\* ----------------------------------------------------------- generateCode
\* The alphabet with '_' in the place of '9'.
charSet_Underscore ==
    << "a", "b", "c", "d", "e", "f", "g", "h", "i", "j", "k", "l", "m",
       "n", "o", "p", "q", "r", "s", "t", "u", "v", "w", "x", "y", "z",
       "A", "B", "C", "D", "E", "F", "G", "H", "I", "J", "K", "L", "M",
       "N", "O", "P", "Q", "R", "S", "T", "U", "V", "W", "X", "Y", "Z",
       "0", "1", "2", "3", "4", "5", "6", "7", "8", "_" >>

\* const charSet = "abc...xyzABC...XYZ0123456789"
charSet ==
    << "a", "b", "c", "d", "e", "f", "g", "h", "i", "j", "k", "l", "m",
       "n", "o", "p", "q", "r", "s", "t", "u", "v", "w", "x", "y", "z",
       "A", "B", "C", "D", "E", "F", "G", "H", "I", "J", "K", "L", "M",
       "N", "O", "P", "Q", "R", "S", "T", "U", "V", "W", "X", "Y", "Z",
       "0", "1", "2", "3", "4", "5", "6", "7", "8", "9" >>

\* The values of a byte.
Bytes == 0..(ByteMod - 1)

\* Every byte accepted (no rejection of the values that bias the modulo).
GenAccepts_NoReject(b) == TRUE

\* rb[0] < byte(len(charSet))*4, in byte arithmetic
GenAccepts(b) == b < (((Len(charSet) % ByteMod) * 4) % ByteMod)

\* charSet[int(rb[0])%len(charSet)] (Go indexes from 0)
GenPick(b) == charSet[(b % Len(charSet)) + 1]

\* The bytes a run of length n is fed: every byte for the short lengths; for
\* the others one byte per character class and two rejected ones.
GenDraws(n) == IF n <= MaxGenLen THEN Bytes ELSE {0, 51, 247, 248, 255}

\* The clock readings (UnixNano) a run of length n may see in the fallback.
GenClock(n) == {b + k * ByteMod : b \in GenDraws(n), k \in {1, 5}}

\* The lengths generateCode is called with.
GenLens == (0..MaxGenLen) \cup {CodeLength}

\* generateCode(n) is called: b := make([]byte, length)
GenCall(n) ==
    /\ gPc = "idle"
    /\ gLen' = n
    /\ gBuf' = <<>>
    /\ gPc' = "draw"
    /\ UNCHANGED <<config, boot, gByte, req, expectHost, queried, stores, cacheHung, pc,
                   op, domain, url, code, attempt, res, resp, quota, hist>>

\* for i < length: rand.Read(rb) succeeds and delivers a byte
GenRandRead(b) ==
    /\ gPc = "draw"
    /\ Len(gBuf) < gLen
    /\ gByte' = b
    /\ gPc' = "check"
    /\ UNCHANGED <<config, boot, gLen, gBuf, req, expectHost, queried, stores, cacheHung,
                   pc, op, domain, url, code, attempt, res, resp, quota, hist>>

\* rand.Read(rb) returns an error: rb is the fresh slice, rb[0] = 0
GenRandFail ==
    /\ gPc = "draw"
    /\ Len(gBuf) < gLen
    /\ gByte' = 0
    /\ gPc' = "fallback"
    /\ UNCHANGED <<config, boot, gLen, gBuf, req, expectHost, queried, stores, cacheHung,
                   pc, op, domain, url, code, attempt, res, resp, quota, hist>>

\* rb[0] = byte(time.Now().UnixNano() % 256)
GenClockFallback(t) ==
    /\ gPc = "fallback"
    /\ gByte' = (t % ByteMod) % ByteMod
    /\ gPc' = "check"
    /\ UNCHANGED <<config, boot, gLen, gBuf, req, expectHost, queried, stores, cacheHung,
                   pc, op, domain, url, code, attempt, res, resp, quota, hist>>

\* if rb[0] < byte(len(charSet))*4 { b[i] = charSet[...]; break }
GenAccept ==
    /\ gPc = "check"
    /\ GenAccepts(gByte)
    /\ gBuf' = Append(gBuf, GenPick(gByte))
    /\ gPc' = "draw"
    /\ UNCHANGED <<config, boot, gLen, gByte, req, expectHost, queried, stores, cacheHung,
                   pc, op, domain, url, code, attempt, res, resp, quota, hist>>

\* otherwise, loop again
GenReject ==
    /\ gPc = "check"
    /\ ~GenAccepts(gByte)
    /\ gPc' = "draw"
    /\ UNCHANGED <<config, boot, gLen, gBuf, gByte, req, expectHost, queried, stores,
                   cacheHung, pc, op, domain, url, code, attempt, res, resp,
                   quota, hist>>

\* i == length: return string(b)
GenReturn ==
    /\ gPc = "draw"
    /\ ~(Len(gBuf) < gLen)
    /\ gPc' = "done"
    /\ UNCHANGED <<config, boot, gLen, gBuf, gByte, req, expectHost, queried, stores,
                   cacheHung, pc, op, domain, url, code, attempt, res, resp,
                   quota, hist>>

\* For each index of charSet, the number of accepted bytes that select it.
GenCount ==
    [i \in 1..Len(charSet) |->
       Cardinality({b \in Bytes : GenAccepts(b) /\ GenPick(b) = charSet[i]})]

\* generateCode run on its own, from the call to the return.
InitGen == InitState(0) /\ useMemory /\ ~redisClient

NextGen ==
    \/ \E n \in GenLens : GenCall(n)
    \/ \E b \in GenDraws(gLen) : GenRandRead(b)
    \/ GenRandFail
    \/ \E t \in GenClock(gLen) : GenClockFallback(t)
    \/ GenAccept
    \/ GenReject
    \/ GenReturn

SpecGen == InitGen /\ [][NextGen]_vars

\* ------------------------------------------------------------------ main
\* A failed ping that leaves the handle in place.
MainMySQL_PingKeepsDb ==
    /\ mainPc = "mysql"
    /\ db' = (env.dsn /\ env.open)
    /\ mainPc' = "usemem"
    /\ UNCHANGED <<config, env, gen, req, expectHost, queried, stores,
                   cacheHung, pc, op, domain, url, code, attempt, res, resp,
                   quota, hist>>

\* if mysqlDSN != "": db, err = sql.Open(...) (nil on error); a failed
\* db.Ping() sets db = nil; otherwise createTable(), whose error is logged.
MainMySQL ==
    /\ mainPc = "mysql"
    /\ db' = (env.dsn /\ env.open /\ env.ping)
    /\ mainPc' = "usemem"
    /\ UNCHANGED <<config, env, gen, req, expectHost, queried, stores,
                   cacheHung, pc, op, domain, url, code, attempt, res, resp,
                   quota, hist>>

\* if db == nil { useMemory = true }
MainUseMemory ==
    /\ mainPc = "usemem"
    /\ useMemory' = IF ~db THEN TRUE ELSE useMemory
    /\ mainPc' = "redis"
    /\ UNCHANGED <<redisClient, db, env, gen, req, expectHost, queried, stores,
                   cacheHung, pc, op, domain, url, code, attempt, res, resp,
                   quota, hist>>

\* if redisAddr != "": redisClient = redis.NewClient(...); a failed Ping
\* (2 s timeout) sets redisClient = nil. Then the handlers are registered and
\* ListenAndServe starts.
MainRedis ==
    /\ mainPc = "redis"
    /\ redisClient' = (env.addr /\ env.rping)
    /\ mainPc' = "serve"
    /\ UNCHANGED <<useMemory, db, env, gen, req, expectHost, queried, stores,
                   cacheHung, pc, op, domain, url, code, attempt, res, resp,
                   quota, hist>>

\* ------------------------------------------------------------- strings
\* The white space strings.TrimSpace removes (the ASCII part).
WhiteChars == {" ", "\t", "\n", "\r"}

RECURSIVE TrimLeft(_)
TrimLeft(s) ==
    IF s # <<>> /\ Head(s) \in WhiteChars THEN TrimLeft(Tail(s)) ELSE s

RECURSIVE TrimRight(_)
TrimRight(s) ==
    IF s # <<>> /\ s[Len(s)] \in WhiteChars
    THEN TrimRight(SubSeq(s, 1, Len(s) - 1)) ELSE s

\* strings.TrimSpace(s)
TrimSpace(s) == TrimRight(TrimLeft(s))

\* The lower-case letter of an upper-case ASCII letter (charSet lists a-z at
\* 1..26 and A-Z at 27..52); any other character is kept.
ToLowerChar(ch) ==
    IF \E i \in 27..52 : charSet[i] = ch
    THEN charSet[(CHOOSE i \in 27..52 : charSet[i] = ch) - 26]
    ELSE ch

\* strings.ToLower(s)
RECURSIVE ToLower(_)
ToLower(s) ==
    IF s = <<>> THEN <<>> ELSE <<ToLowerChar(Head(s))>> \o ToLower(Tail(s))

\* strings.Index(s, ch) + 1: the first position of ch in s, 0 if there is none
Index(s, ch) ==
    IF \E i \in 1..Len(s) : s[i] = ch
    THEN CHOOSE i \in 1..Len(s) : s[i] = ch /\ \A j \in 1..(i - 1) : s[j] # ch
    ELSE 0

\* The normalisation without the trim.
NormalizeDomain_NoTrim(d) == ToLower(d)

\* handleNewURL: req.Domain = strings.ToLower(strings.TrimSpace(req.Domain))
NormalizeDomain(d) == ToLower(TrimSpace(d))

\* handleRedirect: domain := strings.ToLower(r.Host), cut at the first ":"
HostDomain(h) ==
    LET d == ToLower(h) IN
    IF Index(d, ":") # 0 THEN SubSeq(d, 1, Index(d, ":") - 1) ELSE d

\* ---------------------------------------------------------- HTTP requests
\* The pattern the create handler is registered under.
NewUrlPath == <<"/", "n", "e", "w", "u", "r", "l">>

Methods == {"GET", "POST", "PUT"}

\* Domains as a client may send them: empty, blank, upper case, padded, and
\* with a port.
RawDomains == {<<>>, <<" ">>, <<"A">>, <<" ", "a", "\t">>, <<"a", ":", "8">>}

\* Host headers: as returned in shortenUrl, upper case, and with a port.
Hosts == {<<"a">>, <<"A">>, <<"a", ":", "8">>}

\* Decoded bodies: malformed JSON, and every pair of a domain and a url (the
\* url missing, or present).
Bodies ==
    {NoBody} \cup
    {[ok |-> TRUE, domain |-> d, url |-> u] :
        d \in RawDomains, u \in {NoUrl} \cup Urls}

\* Paths other than /newurl: "/" and a code, "/" alone, a code cut short, a
\* code with one character more, and a code ending in a character outside
\* the pattern.
Paths ==
    {<<"/">> \o c : c \in Codes} \cup
    {<<"/">>} \cup
    {<<"/">> \o SubSeq(c, 1, CodeLen - 1) : c \in Codes} \cup
    {<<"/">> \o c \o <<"x">> : c \in Codes} \cup
    {<<"/">> \o SubSeq(c, 1, CodeLen - 1) \o <<"!">> : c \in Codes}

\* Requests the mux hands to handleNewURL (the body matters to a POST only).
NewURLRequests ==
    {[method |-> m, path |-> NewUrlPath, host |-> <<"a">>, body |-> b] :
        m \in {"POST"}, b \in Bodies} \cup
    {[method |-> m, path |-> NewUrlPath, host |-> <<"a">>, body |-> NoBody] :
        m \in Methods \ {"POST"}}

\* Requests the mux hands to handleRedirect (the catch-all pattern "/").
RedirectRequests ==
    {[method |-> m, path |-> q, host |-> h, body |-> NoBody] :
        m \in Methods, q \in Paths, h \in Hosts}

\* handleNewURL up to the call of saveURLMapping: 405 unless POST, 400 on a
\* body that does not decode, 400 on an empty domain (after normalising) or
\* an empty url; otherwise saveURLMapping(req.Domain, req.URL) is called.
handleNewURL(p, r) ==
    /\ mainPc = "serve"
    /\ pc[p] = "idle"
    /\ quota > 0
    /\ r.path = NewUrlPath
    /\ quota' = quota - 1
    /\ req' = [req EXCEPT ![p] = r]
    /\ op' = [op EXCEPT ![p] = "new"]
    /\ IF r.method # "POST"
       THEN /\ resp' = [resp EXCEPT
                          ![p] = ErrorResponse(StatusMethodNotAllowed)]
            /\ pc' = [pc EXCEPT ![p] = "sent"]
            /\ UNCHANGED <<domain, url>>
       ELSE IF \/ ~r.body.ok
               \/ NormalizeDomain(r.body.domain) = <<>>
               \/ r.body.url = NoUrl
       THEN /\ resp' = [resp EXCEPT ![p] = ErrorResponse(StatusBadRequest)]
            /\ pc' = [pc EXCEPT ![p] = "sent"]
            /\ UNCHANGED <<domain, url>>
       ELSE /\ domain' = [domain EXCEPT
                            ![p] = NormalizeDomain(r.body.domain)]
            /\ url' = [url EXCEPT ![p] = r.body.url]
            /\ pc' = [pc EXCEPT ![p] = "sLoop"]
            /\ UNCHANGED resp
    /\ UNCHANGED <<config, boot, gen, expectHost, queried, stores, cacheHung,
                   code, attempt, res, hist>>

\* The URL a successful allocation has returned the pair (d, c) for, "" if
\* there is none.
ReturnedUrl(d, c) ==
    IF \E u \in Urls : <<d, c, u>> \in Triples /\ returned[<<d, c, u>>] > 0
    THEN CHOOSE u \in Urls : <<d, c, u>> \in Triples /\ returned[<<d, c, u>>] > 0
    ELSE NoUrl

\* handleRedirect up to the call of getOriginalURL: 404 unless GET, 404 on a
\* path that does not match shortCodePattern; otherwise code := path[1:],
\* the domain is taken from the Host and getOriginalURL(domain, code) is
\* called.
handleRedirect(p, r) ==
    /\ mainPc = "serve"
    /\ pc[p] = "idle"
    /\ quota > 0
    /\ r.path # NewUrlPath
    /\ quota' = quota - 1
    /\ req' = [req EXCEPT ![p] = r]
    /\ op' = [op EXCEPT ![p] = "get"]
    /\ IF r.method # "GET" \/ ~shortCodePattern(r.path, CodeLen)
       THEN /\ resp' = [resp EXCEPT ![p] = ErrorResponse(StatusNotFound)]
            /\ pc' = [pc EXCEPT ![p] = "sent"]
            /\ UNCHANGED <<domain, code, expect, expectHost>>
       ELSE LET c == Tail(r.path)
                d == HostDomain(r.host)
            IN
            /\ domain' = [domain EXCEPT ![p] = d]
            /\ code' = [code EXCEPT ![p] = c]
            /\ expect' = [expect EXCEPT ![p] = ReturnedUrl(d, c)]
            /\ expectHost' = [expectHost EXCEPT
                                ![p] = ReturnedUrl(r.host, c)]
            /\ pc' = [pc EXCEPT ![p] = IF useMemory THEN "gRLock"
                                       ELSE IF redisClient THEN "gGet"
                                       ELSE "gQuery"]
            /\ UNCHANGED resp
    /\ UNCHANGED <<config, boot, gen, queried, stores, cacheHung, url,
                   attempt, res, collisions, cacheErr, returned, committed,
                   dbErr>>

\* The service from the start of main: the startup, then requests as the
\* mux dispatches them, run by the same steps as above.
InitHttp ==
    /\ useMemory = FALSE
    /\ redisClient = FALSE
    /\ db = FALSE
    /\ mainPc = "mysql"
    /\ env \in Envs
    /\ InitRequests(MaxReqsHttp)

NextHttp ==
    \/ MainMySQL
    \/ MainUseMemory
    \/ MainRedis
    \/ \E p \in Procs, r \in NewURLRequests : handleNewURL(p, r)
    \/ \E p \in Procs, r \in RedirectRequests : handleRedirect(p, r)
    \/ \E p \in Procs : SaveStep(p)
    \/ \E p \in Procs : MemStep(p)
    \/ \E p \in Procs : GetStep(p)
    \/ \E p \in Procs : EndStep(p)
    \/ \E k \in DOMAIN cache : CacheEvict(k)

SpecHttp == InitHttp /\ [][NextHttp]_vars

\* =================================================================== claims
\* The authoritative store of the active mode, read through the code's keys.
StoreHas(d, c) ==
    IF useMemory THEN MemKey(d, c) \in DOMAIN memData ELSE DbHas(d, c)

StoreUrl(d, c) ==
    IF useMemory THEN memData[MemKey(d, c)] ELSE DbUrl(d, c)

\* How many successful allocations returned the pair (d, c).
RECURSIVE SumReturned(_, _, _)
SumReturned(d, c, U) ==
    IF U = {} THEN 0
    ELSE LET u == CHOOSE x \in U : TRUE
         IN returned[<<d, c, u>>] + SumReturned(d, c, U \ {u})

\* C1: no two successful allocations return the same (domain, code) pair, in
\* fallback and in durable mode: of the attempts that draw one candidate at
\* most one reaches the insert (the key is absent when it inserts, the table
\* holds one row per pair) and every pair is returned at most once.
C1_UniqueCodes ==
    /\ \A d \in Domains, c \in Codes : SumReturned(d, c, Urls) <= 1
    /\ \A p \in Procs :
         pc[p] = "mInsert" => MemKey(domain[p], code[p]) \notin DOMAIN memData
    /\ \A p, q \in Procs :
         (/\ p # q
          /\ pc[p] \in {"mInsert", "mUnlockOk"}
          /\ pc[q] \in {"mInsert", "mUnlockOk"})
         => <<domain[p], code[p]>> # <<domain[q], code[q]>>
    /\ \A r1, r2 \in dbRows :
         (r1[1] = r2[1] /\ r1[2] = r2[2]) => r1 = r2

\* C1 witness: two requests drew the same candidate for the same domain; one
\* returned it and the other observed the collision and is back at the loop.
C1_Witness ==
    \E p, q \in Procs :
        /\ p # q
        /\ op[p] = "new" /\ op[q] = "new"
        /\ pc[p] = "ret" /\ res[p].err = "none"
        /\ pc[q] = "sLoop" /\ attempt[q] > 0
        /\ domain[p] = domain[q] /\ code[p] = code[q]

\* C2 (as stated): a lookup of a pair that an allocation had returned before
\* the lookup started returns exactly the allocated URL.
C2_RoundTripExact ==
    \A p \in Procs :
        (pc[p] = "ret" /\ op[p] = "get" /\ expect[p] # NoUrl)
        => res[p] = Ok(NoCode, expect[p])

\* C2 (amended): such a lookup returns the allocated URL, or, in durable mode
\* only, the store error of a failed database query; never NotFound and
\* never another URL.
C2_RoundTrip ==
    \A p \in Procs :
        (pc[p] = "ret" /\ op[p] = "get" /\ expect[p] # NoUrl)
        => \/ res[p] = Ok(NoCode, expect[p])
           \/ ~useMemory /\ dbErr[p] /\ res[p] = Err("StoreErr")

\* C2 witness: a lookup of a previously returned pair came back with its URL
\* while the other domain holds the same code for another URL.
C2_Witness ==
    \E p \in Procs :
        /\ pc[p] = "ret" /\ op[p] = "get"
        /\ expect[p] # NoUrl
        /\ res[p] = Ok(NoCode, expect[p])
        /\ \E d \in Domains, u \in Urls :
             d # domain[p] /\ u # expect[p] /\ <<d, code[p], u>> \in committed

\* C3: every cache entry is the cache key of a pair the store holds, with
\* the URL the store holds for it.
C3_CacheConsistent ==
    \A k \in DOMAIN cache :
        \E d \in Domains, c \in Codes :
            /\ k = CacheKey(d, c)
            /\ StoreHas(d, c)
            /\ cache[k] = StoreUrl(d, c)

\* C3 witness: an allocation collided on a pair whose cache entry holds the
\* other URL; the entry still holds the committed one.
C3_Witness ==
    \E p \in Procs :
        /\ op[p] = "new" /\ pc[p] = "sLoop" /\ attempt[p] > 0
        /\ CacheKey(domain[p], code[p]) \in DOMAIN cache
        /\ cache[CacheKey(domain[p], code[p])] # url[p]

\* C4: an operation that saw a cache failure returns what the store alone
\* decides: an allocation returns its committed code, a lookup returns the
\* store's URL, NotFound or the store error; no cache error is ever returned.
C4_CacheFailureAbsorbed ==
    /\ \A p \in Procs : res[p].err \in {"none", "ErrNoRows", "StoreErr", "Exhausted"}
    /\ \A p \in Procs :
         (pc[p] = "ret" /\ cacheErr[p] /\ op[p] = "new")
         => /\ res[p] = Ok(code[p], NoUrl)
            /\ <<domain[p], code[p], url[p]>> \in dbRows
    /\ \A p \in Procs :
         (pc[p] = "ret" /\ cacheErr[p] /\ op[p] = "get")
         => \/ /\ res[p].err = "none"
               /\ DbHas(domain[p], code[p])
               /\ res[p].url = DbUrl(domain[p], code[p])
            \/ res[p] = Err("ErrNoRows") /\ expect[p] = NoUrl /\ ~dbErr[p]
            \/ res[p] = Err("StoreErr") /\ dbErr[p]

\* C4 witness: a lookup whose cache read and cache write both failed while the
\* pair is in the table returned the table's URL, and an allocation whose
\* cache write failed returned its code.
C4_Witness ==
    \E p, q \in Procs :
        /\ pc[p] = "ret" /\ op[p] = "get" /\ cacheErr[p]
        /\ res[p].err = "none"
        /\ CacheKey(domain[p], code[p]) \notin DOMAIN cache
        /\ pc[q] = "ret" /\ op[q] = "new" /\ cacheErr[q]
        /\ res[q].err = "none"

C6_BoundedRetries ==
    \A p \in Procs :
        /\ attempt[p] <= MaxAttempts
        /\ collisions[p] <= MaxAttempts
        /\ pc[p] \in {"mLock", "mCheck", "mInsert", "mUnlockOk", "mUnlockDup",
                      "dExec", "sSet"}
           => collisions[p] < MaxAttempts
        /\ (op[p] = "new" /\ pc[p] \in {"ret", "sent"})
           => /\ res[p].err \in {"none", "Exhausted", "StoreErr"}
              /\ (res[p].err = "Exhausted") <=> (collisions[p] = MaxAttempts)
              /\ res[p].err = "none"
                 => /\ res[p].code = code[p]
                    /\ <<domain[p], code[p], url[p]>> \in committed
                    /\ collisions[p] = attempt[p]
              /\ res[p].err = "StoreErr" => (~useMemory /\ dbErr[p])

\* C6 witness: one allocation returned a code after at least one collision
\* while another ended with the exhausted error.
C6_Witness ==
    \E p, q \in Procs :
        /\ p # q
        /\ op[p] = "new" /\ pc[p] = "ret" /\ res[p].err = "Exhausted"
        /\ op[q] = "new" /\ pc[q] = "ret" /\ res[q].err = "none"
        /\ collisions[q] >= 1

\* C7: in durable mode an insert that fails with an error other than the
\* duplicate-key error ends the allocation at once: the failing step changes
\* neither the table nor the cache, and from then on the allocation is at its
\* return with the store error (answered 500), never at another attempt.
C7_AbortOnStoreError ==
    /\ [](\A p \in Procs :
            (op[p] = "new" /\ dbErr[p])
            => /\ pc[p] \in {"ret", "sent"}
               /\ res[p] = Err("StoreErr")
               /\ pc[p] = "sent" => resp[p].status = StatusInternalServerError)
    /\ [][\A p \in Procs :
            (op[p] = "new" /\ ~dbErr[p] /\ dbErr'[p])
            => /\ dbRows' = dbRows
               /\ cache' = cache
               /\ committed' = committed
               /\ returned' = returned]_vars

\* C7 witness: after one collision, the second insert failed with a store
\* error; the allocation is at its return and its pair is neither in the
\* table nor in the cache.
C7_Witness ==
    \E p \in Procs :
        /\ redisClient
        /\ op[p] = "new" /\ pc[p] = "ret" /\ dbErr[p]
        /\ collisions[p] >= 1
        /\ ~DbHas(domain[p], code[p])
        /\ CacheKey(domain[p], code[p]) \notin DOMAIN cache

\* C8: a lookup never succeeds for a pair the store does not hold: it returns
\* sql.ErrNoRows (answered 404), or the store error exactly when the database
\* query failed (answered 500); a success carries the store's non-empty URL
\* (answered 301).
C8_NotFound ==
    \A p \in Procs :
        (op[p] = "get" /\ pc[p] \in {"ret", "sent"})
        => /\ res[p].err \in {"none", "ErrNoRows", "StoreErr"}
           /\ res[p].err = "none"
              => /\ StoreHas(domain[p], code[p])
                 /\ res[p].url = StoreUrl(domain[p], code[p])
                 /\ res[p].url # NoUrl
           /\ ~StoreHas(domain[p], code[p])
              => res[p].err \in {"ErrNoRows", "StoreErr"}
           /\ (res[p].err = "StoreErr") <=> dbErr[p]
           /\ dbErr[p] => ~useMemory
           /\ pc[p] = "sent"
              => /\ (res[p].err = "ErrNoRows")
                      <=> (resp[p].status = StatusNotFound)
                 /\ (res[p].err = "StoreErr")
                      <=> (resp[p].status = StatusInternalServerError)
                 /\ (res[p].err = "none")
                      <=> (resp[p].status = StatusMovedPermanently)
                 /\ resp[p].url = res[p].url

\* C8 witness: in durable mode with a cache, a lookup of a pair that is not in
\* the table, whose code another domain holds, was answered 404.
C8_Witness ==
    \E p \in Procs :
        /\ ~useMemory /\ redisClient
        /\ op[p] = "get" /\ pc[p] = "sent"
        /\ resp[p].status = StatusNotFound
        /\ ~StoreHas(domain[p], code[p])
        /\ \E r \in dbRows : r[2] = code[p] /\ r[1] # domain[p]

\* C9: every mapping an insert ever committed is still in the store with the
\* URL it was committed with.
C9_Immutable ==
    \A t \in committed :
        /\ StoreHas(t[1], t[2])
        /\ StoreUrl(t[1], t[2]) = t[3]

\* C9 witness: in fallback mode an allocation for another URL drew a committed
\* pair and found it taken.
C9_Witness ==
    \E p \in Procs :
        /\ useMemory
        /\ pc[p] = "mUnlockDup"
        /\ \E t \in committed :
             t[1] = domain[p] /\ t[2] = code[p] /\ t[3] # url[p]

\* C10: a lookup of (d, c) succeeds only with the URL an allocation for d
\* itself committed under c; if no allocation for d committed c it returns
\* sql.ErrNoRows (or the store error of a failed query), whatever other
\* domains hold under c.
C10_DomainScoped ==
    \A p \in Procs :
        (op[p] = "get" /\ pc[p] = "ret")
        => /\ res[p].err = "none"
              => <<domain[p], code[p], res[p].url>> \in committed
           /\ (\A u \in Urls : <<domain[p], code[p], u>> \notin committed)
              => \/ res[p] = Err("ErrNoRows")
                 \/ dbErr[p] /\ res[p] = Err("StoreErr")

\* C10 witness: two domains hold the same code for different URLs and a
\* lookup under one of them returned that domain's URL.
C10_Witness ==
    \E p \in Procs, d \in Domains, u \in Urls :
        /\ op[p] = "get" /\ pc[p] = "ret"
        /\ d # domain[p] /\ u # res[p].url
        /\ <<d, code[p], u>> \in committed
        /\ <<domain[p], code[p], res[p].url>> \in committed

\* C11 (as stated): whenever a cache client is configured, in fallback mode
\* too, an allocation that returns its code without a cache failure has
\* written the pair's cache entry, and a lookup reads the cache first.
C11_CacheInFallback ==
    [][\A p \in Procs :
         /\ (/\ redisClient
             /\ op[p] = "new" /\ pc[p] # "ret" /\ pc'[p] = "ret"
             /\ res'[p].err = "none" /\ ~cacheErr'[p])
            => /\ CacheKey(domain[p], code[p]) \in DOMAIN cache'
               /\ cache'[CacheKey(domain[p], code[p])] = url[p]
         /\ (/\ redisClient
             /\ pc[p] = "idle" /\ op'[p] = "get")
            => pc'[p] = "gGet"]_vars

\* C15: in durable mode with a cache client, (1) a lookup that read the
\* table and returns its URL without a cache failure leaves the pair's cache
\* entry holding that URL, and (2) a lookup whose Get finds the entry and does
\* not fail returns from the Get with the entry's value, which is the table's
\* URL, without a database query.
C15_ReadThrough ==
    [][\A p \in Procs :
         LET k == CacheKey(domain[p], code[p]) IN
         /\ (/\ ~useMemory /\ redisClient
             /\ op[p] = "get" /\ queried[p]
             /\ pc[p] # "ret" /\ pc'[p] = "ret"
             /\ res'[p].err = "none" /\ ~cacheErr'[p])
            => /\ k \in DOMAIN cache'
               /\ cache'[k] = res'[p].url
               /\ res'[p].url = DbUrl(domain[p], code[p])
         /\ (/\ pc[p] = "gGet" /\ pc'[p] # "gGet"
             /\ k \in DOMAIN cache
             /\ ~cacheErr'[p])
            => /\ pc'[p] = "ret"
               /\ ~queried'[p]
               /\ res'[p] = Ok(NoCode, cache[k])
               /\ DbHas(domain[p], code[p])
               /\ cache[k] = DbUrl(domain[p], code[p])]_vars

\* C15 witness: a lookup that missed, read the table and filled the cache
\* has returned, and another lookup of the same pair returned the same URL
\* from the cache entry without a database query.
C15_Witness ==
    \E p, q \in Procs :
        /\ p # q
        /\ ~useMemory /\ redisClient
        /\ op[p] = "get" /\ pc[p] = "ret" /\ queried[p] /\ ~cacheErr[p]
        /\ res[p].err = "none"
        /\ op[q] = "get" /\ pc[q] = "ret" /\ ~queried[q] /\ ~cacheErr[q]
        /\ domain[q] = domain[p] /\ code[q] = code[p]
        /\ res[q] = res[p]
        /\ CacheKey(domain[p], code[p]) \in DOMAIN cache

\* C20: no step of a lookup, from its start to its return, changes the
\* table or the in-memory map, and the only cache key whose entry it may
\* change is the key of the pair it looks up.
C20_ResolveFrame ==
    [][\A p \in Procs :
         ((op[p] = "get" \/ op'[p] = "get") /\ pc'[p] # pc[p])
         => /\ dbRows' = dbRows
            /\ memData' = memData
            /\ \A k \in DOMAIN cache \cup DOMAIN cache' :
                 k # CacheKey(domain'[p], code'[p])
                 => /\ k \in DOMAIN cache /\ k \in DOMAIN cache'
                    /\ cache'[k] = cache[k]]_vars

\* C20 witness: with two rows in the table a lookup that read one of them
\* has written its cache entry and returned.
C20_Witness ==
    \E p \in Procs :
        /\ op[p] = "get" /\ pc[p] = "ret" /\ queried[p]
        /\ res[p].err = "none"
        /\ CacheKey(domain[p], code[p]) \in DOMAIN cache
        /\ Cardinality(dbRows) >= 2
        /\ Cardinality(DOMAIN cache) = 1

\* C17: generateCode(n) never holds more than n characters, every character
\* it writes is one of [0-9A-Za-z], and what it returns has exactly n
\* characters; a code of the length saveURLMapping asks for, put after "/",
\* matches the lookup pattern.
C17_GenerateCode ==
    /\ Len(gBuf) <= gLen
    /\ \A i \in 1..Len(gBuf) :
         gBuf[i] \in UpperChars \cup LowerChars \cup DigitChars
    /\ gPc = "done"
       => /\ Len(gBuf) = gLen
          /\ gLen = CodeLength => shortCodePattern(<<"/">> \o gBuf, PatternLen)

\* C17 witness: a code of length 9 was returned that holds a lower-case
\* letter, an upper-case letter and a digit.
C17_Witness ==
    /\ gPc = "done" /\ gLen = CodeLength
    /\ gBuf[1] = "a" /\ gBuf[2] = "Z" /\ gBuf[3] = "9"

\* C18: a byte is accepted exactly when it is below 248; every one of the 62
\* characters is selected by exactly 4 accepted bytes; and the step that
\* looks at a drawn byte appends the character at index (byte mod 62) when
\* the byte is below 248 and otherwise appends nothing and draws again.
C18_RejectionSampling ==
    /\ [](/\ gByte \in Bytes
          /\ Len(charSet) = 62
          /\ \A b \in Bytes : GenAccepts(b) <=> b < 248
          /\ \A i \in 1..Len(charSet) : GenCount[i] = 4)
    /\ [][gPc = "check"
          => /\ gPc' = "draw"
             /\ IF gByte < 248
                THEN gBuf' = Append(gBuf, charSet[(gByte % 62) + 1])
                ELSE gBuf' = gBuf]_vars

\* C18 witness: after one accepted byte the byte 248 was drawn and discarded,
\* and the loop is about to draw again for the same position.
C18_Witness ==
    /\ gPc = "draw" /\ gLen = 2
    /\ Len(gBuf) = 1
    /\ gByte = 248

\* C12 (as stated): every response carries one of the statuses 200, 301,
\* 400, 404 and 500.
C12_StatusesAsStated ==
    \A p \in Procs :
        pc[p] = "sent"
        => resp[p].status \in {StatusOK, StatusMovedPermanently,
                               StatusBadRequest, StatusNotFound,
                               StatusInternalServerError}

\* C12 (amended): a request to /newurl is answered 405 exactly when its
\* method is not POST, else 400 exactly when its body does not decode or its
\* domain or url is empty, else 200 with the url and the short URL when the
\* allocation succeeded and 500 when it failed; any other request is
\* answered 301 with the looked-up URL, 404 or 500; no other status occurs.
C12_Statuses ==
    \A p \in Procs :
        pc[p] = "sent"
        => LET st == resp[p].status
               r == req[p]
           IN
           IF op[p] = "new"
           THEN /\ st \in {StatusOK, StatusBadRequest,
                           StatusMethodNotAllowed, StatusInternalServerError}
                /\ st = StatusMethodNotAllowed <=> r.method # "POST"
                /\ st = StatusBadRequest
                   <=> /\ r.method = "POST"
                       /\ \/ ~r.body.ok
                          \/ ToLower(TrimSpace(r.body.domain)) = <<>>
                          \/ r.body.url = NoUrl
                /\ st = StatusOK
                   => /\ res[p].err = "none"
                      /\ resp[p].url = r.body.url
                      /\ resp[p].short = ShortURL(domain[p], res[p].code)
                /\ st = StatusInternalServerError
                   <=> res[p].err \in {"StoreErr", "Exhausted"}
           ELSE /\ st \in {StatusMovedPermanently, StatusNotFound,
                           StatusInternalServerError}
                /\ st = StatusMovedPermanently
                   <=> /\ res[p].err = "none" /\ res[p].url # NoUrl
                       /\ resp[p].url = res[p].url
                /\ st = StatusInternalServerError <=> res[p].err = "StoreErr"

\* C12 witness: a GET of /newurl has been answered 405 while a create has
\* been answered 200.
C12_Witness ==
    \E p, q \in Procs :
        /\ pc[p] = "sent" /\ req[p].method = "GET"
        /\ req[p].path = NewUrlPath
        /\ resp[p].status = StatusMethodNotAllowed
        /\ pc[q] = "sent" /\ resp[q].status = StatusOK

\* C13 (as stated): every GET whose path does not match the pattern is
\* answered 404.
C13_BadPath404 ==
    \A p \in Procs :
        (/\ pc[p] = "sent"
         /\ req[p].method = "GET"
         /\ ~shortCodePattern(req[p].path, CodeLen))
        => resp[p].status = StatusNotFound

\* C13 (amended): a GET whose path does not match the pattern is answered in
\* the step that accepts it, 404 unless the path is /newurl and 405 if it
\* is, and that step starts no cache or database access, generates no code
\* and leaves the map, the table and the cache as they were.
C13_ShortCircuit ==
    [][\A p \in Procs :
         (/\ pc[p] = "idle" /\ pc'[p] # "idle"
          /\ req'[p].method = "GET"
          /\ \/ Len(req'[p].path) # CodeLen + 1
             \/ \E i \in 1..Len(req'[p].path) :
                  req'[p].path[i] \notin
                    (IF i = 1 THEN {"/"}
                     ELSE UpperChars \cup LowerChars \cup DigitChars))
         => /\ pc'[p] = "sent"
            /\ resp'[p].status = IF req'[p].path = NewUrlPath
                                 THEN StatusMethodNotAllowed
                                 ELSE StatusNotFound
            /\ ~queried'[p]
            /\ code'[p] = NoCode
            /\ UNCHANGED <<stores, committed, returned, config>>]_vars

\* C13 witness: with a mapping in the store, a GET of a path one character
\* too long has been answered 404.
C13_Witness ==
    \E p \in Procs :
        /\ pc[p] = "sent" /\ req[p].method = "GET"
        /\ Len(req[p].path) = CodeLen + 2
        /\ resp[p].status = StatusNotFound
        /\ committed # {}

\* C14: a POST to /newurl whose body decodes but whose domain is empty once
\* trimmed and lower-cased, or whose url is empty, is answered 400 in the
\* step that accepts it: no code is generated, and the map, the table and
\* the cache stay as they were.
C14_RejectEmpty ==
    [][\A p \in Procs :
         (/\ pc[p] = "idle" /\ pc'[p] # "idle"
          /\ req'[p].path = NewUrlPath
          /\ req'[p].method = "POST"
          /\ req'[p].body.ok
          /\ \/ ToLower(TrimSpace(req'[p].body.domain)) = <<>>
             \/ req'[p].body.url = NoUrl)
         => /\ pc'[p] = "sent"
            /\ resp'[p].status = StatusBadRequest
            /\ code'[p] = NoCode
            /\ attempt'[p] = 0
            /\ UNCHANGED <<stores, committed, returned, config>>]_vars

\* C14 witness: a POST with a blank domain and a url has been answered 400.
C14_Witness ==
    \E p \in Procs :
        /\ pc[p] = "sent" /\ req[p].method = "POST"
        /\ req[p].body.ok
        /\ req[p].body.domain = <<" ">>
        /\ req[p].body.url # NoUrl
        /\ resp[p].status = StatusBadRequest

\* C16: main only moves through its startup steps to serving (it has no
\* exit); requests run only once it serves; and in every serving state the
\* fallback store is in use exactly when the database was not configured,
\* opened and pinged, the cache client is set exactly when Redis was
\* configured and pinged, and useMemory = false implies db non-nil.
C16_StartupDegradation ==
    /\ mainPc \in {"mysql", "usemem", "redis", "serve"}
    /\ \A p \in Procs : pc[p] # "idle" => mainPc = "serve"
    /\ mainPc = "serve"
       => /\ useMemory <=> ~(env.dsn /\ env.open /\ env.ping)
          /\ redisClient <=> (env.addr /\ env.rping)
          /\ ~useMemory => db

\* C16 witness: started with a database and a cache that are configured but
\* do not answer the ping, the service has answered a create with 200.
C16_Witness ==
    /\ mainPc = "serve"
    /\ env.dsn /\ env.open /\ ~env.ping
    /\ env.addr /\ ~env.rping
    /\ useMemory /\ ~redisClient
    /\ \E p \in Procs : pc[p] = "sent" /\ resp[p].status = StatusOK

\* C19 (as stated): a GET of /code whose Host is the domain of a short URL
\* that a create had returned for that code is redirected to the created
\* URL (or, in durable mode, answered 500 when the database query failed),
\* and its lookup uses the Host as it was stored.
C19_HttpRoundTrip ==
    \A p \in Procs :
        (pc[p] = "sent" /\ op[p] = "get" /\ expectHost[p] # NoUrl)
        => /\ domain[p] = req[p].host
           /\ \/ /\ resp[p].status = StatusMovedPermanently
                 /\ resp[p].url = expectHost[p]
              \/ /\ dbErr[p]
                 /\ resp[p].status = StatusInternalServerError

====
